---- MODULE Spec2Model ----
(***************************************************************************)
(* Matryoshka optimizer (ng_trajectory/optimizers/matryoshka/main.py) and  *)
(* curvature penalizer (ng_trajectory/penalizers/curvature/main.py).       *)
(*                                                                         *)
(* Numbers.  Coordinates are integers.  Curvatures are carried in tenths   *)
(* (15 stands for 1.5), and the penalty constant is a multiple of 100, so  *)
(* that (k_excess / 100) * penalty * 10 is an exact integer.               *)
(*                                                                         *)
(* Processes.  Process 0 is the driver (the caller of init and optimize);  *)
(* processes 1..MaxWorkers are the workers of the ProcessPoolExecutor.     *)
(***************************************************************************)
EXTENDS Integers, Sequences, FiniteSets, TLC

VARIABLES
    \* globals of optimizers/matryoshka/main.py (lines 30-51)
    MATRYOSHKA, VALID_POINTS, GRID, PENALTY, VERBOSITY, PENALIZER_ARGS,
    OPTIMIZER, INTERPOLATOR, LOGFILE, FILELOCK,
    \* globals of penalizers/curvature/main.py, one copy per process
    INVALID_POINTS, P_k_max,
    \* the log: text each process still buffers, and what reached the sink
    logbuf, logsink,
    \* position of every process inside _opt, and its locals
    pc, cand, ev, res, pending,
    \* the driver inside optimize(), and the optimizer's bookkeeping
    asked, told, best, final,
    \* history: calls made so far
    nInit, nRun, nOpt, lastInit, built, penCall,
    \* the criterion module init received; the default dictionary of
    \* init's penalizer_args parameter and whether PENALIZER_ARGS is that object
    CRITERION, defaultArgs, argsDefault,
    \* calls of _opt and of transform.matryoshkaMap taken alone
    evalCall, mapCall

vars == <<MATRYOSHKA, VALID_POINTS, GRID, PENALTY, VERBOSITY, PENALIZER_ARGS,
          OPTIMIZER, INTERPOLATOR, LOGFILE, FILELOCK, INVALID_POINTS, P_k_max,
          logbuf, logsink, pc, cand, ev, res, pending, asked, told, best,
          final, nInit, nRun, nOpt, lastInit, built, penCall,
          CRITERION, defaultArgs, argsDefault, evalCall, mapCall>>

----------------------------------------------------------------------------
\* Bounds of the model.
MaxWorkers == 2
MaxBudget == 2
MaxInits == 2
MaxRuns == 2
MaxPts == 2
MapDen == 4

\* Program constants.
KMaxDefault == 15

Driver == 0
Workers == 1..MaxWorkers
Procs == 0..MaxWorkers

\* Python's None for a list-valued global (MATRYOSHKA, GRID, OPTIMIZER).
None == <<>>

Abs(n) == IF n < 0 THEN -n ELSE n

Min(S) == CHOOSE m \in S : \A n \in S : m <= n

RECURSIVE SumSeq(_)
SumSeq(s) == IF s = <<>> THEN 0 ELSE Head(s) + SumSeq(Tail(s))

RECURSIVE SelectSeqIdx(_, _)
\* the subsequence of s at the indices in I, in order
SelectSeqIdx(s, I) ==
    IF s = <<>> THEN <<>>
    ELSE LET n == Len(s)
             front == SelectSeqIdx(SubSeq(s, 1, n - 1), I)
         IN IF n \in I THEN Append(front, s[n]) ELSE front

----------------------------------------------------------------------------
\* penalizers/curvature/main.py

\* segmentators.utils.gridCompute: the smallest non-zero coordinate
\* difference over both axes.
GridCompute(points) ==
    LET diffs == { Abs(p[d] - q[d]) : p \in points, q \in points, d \in 1..2 }
    IN Min(diffs \ {0})

\* IsValid with the comparison of line 63 made non-strict
IsValidLeq(p, valid_points, grid) ==
    \E v \in valid_points :
        /\ Abs(v[1] - p[1]) <= grid[1]
        /\ Abs(v[2] - p[2]) <= grid[2]

\* line 63: some valid point lies closer than the grid in x and in y.
IsValid(p, valid_points, grid) ==
    \E v \in valid_points :
        /\ Abs(v[1] - p[1]) < grid[1]
        /\ Abs(v[2] - p[2]) < grid[2]

\* rows of points (by index) the loop of lines 62-65 appends.
InvalidIdx(points, valid_points, grid) ==
    { i \in 1..Len(points) : ~IsValid(points[i], valid_points, grid) }

\* rows with curvature above k_max / below -k_max (lines 70, 73, 77).
OverIdx(points, k_max) == { i \in 1..Len(points) : points[i][3] > k_max }

UnderIdx(points, k_max) == { i \in 1..Len(points) : points[i][3] < -k_max }

\* KExcess10 with the negation of line 72 dropped
KExcess10Signed(points, k_max) ==
    SumSeq([ i \in 1..Len(points) |->
                IF points[i][3] > k_max THEN points[i][3] ELSE 0 ])
    + SumSeq([ i \in 1..Len(points) |->
                IF points[i][3] < -k_max THEN points[i][3] ELSE 0 ])

\* lines 68-75, times ten (curvatures are in tenths)
KExcess10(points, k_max) ==
    SumSeq([ i \in 1..Len(points) |->
                IF i \in OverIdx(points, k_max) THEN points[i][3] ELSE 0 ])
    - SumSeq([ i \in 1..Len(points) |->
                IF i \in UnderIdx(points, k_max) THEN points[i][3] ELSE 0 ])

\* ObserverAfter without the clear of line 60
ObserverAfterNoClear(old, found) == old \o found

\* INVALID_POINTS after a call that found the rows `found`: the list is
\* cleared (line 60) before rows are appended (lines 64, 77)
ObserverAfter(old, found) == found

\* line 51 (P.updateAll(overflown, reset = False)) and line 53
KMaxAfter(overflown, stored) ==
    IF "k_max" \in DOMAIN overflown THEN overflown.k_max ELSE stored

\* penalize (lines 35-82).  cols is the number of columns of `points`;
\* stored is the k_max the parameter list holds on entry.  The result says
\* whether the call returned (ok) and what (val), and gives the module state
\* it leaves: INVALID_POINTS (inv) and the stored k_max.  With fewer than
\* three columns points[:, 2] of line 70 or of line 80 raises IndexError,
\* after INVALID_POINTS was rewritten by lines 60-65.
Penalize(points, cols, valid_points, grid, penalty, overflown, stored) ==
    LET k_max == KMaxAfter(overflown, stored)
        xy == { <<points[i][1], points[i][2]>> : i \in 1..Len(points) }
        _grid == IF grid # <<>> THEN grid
                 ELSE <<GridCompute(xy), GridCompute(xy)>>
        bad == InvalidIdx(points, valid_points, _grid)
        invalid == Cardinality(bad)
    IN IF cols < 3
       THEN [ok |-> FALSE, val |-> 0, k_max |-> k_max,
             inv |-> SelectSeqIdx(points, bad)]
       ELSE IF invalid = 0
       THEN [ok |-> TRUE,
             val |-> (KExcess10(points, k_max) * penalty * 10) \div 1000,
             k_max |-> k_max,
             inv |-> SelectSeqIdx(points, OverIdx(points, k_max)
                                          \cup UnderIdx(points, k_max))]
       ELSE [ok |-> TRUE, val |-> invalid * penalty * 10, k_max |-> k_max,
             inv |-> SelectSeqIdx(points, bad)]

----------------------------------------------------------------------------
\* Collaborators of init and _opt whose code lies outside the two files:
\* selector, segmentator, transform.*, interpolator, criterion.  Each is a
\* deterministic stand-in that honours the stated contract.

\* The tracks a caller may pass to init: valid points and a centerline.
TrackA ==
    [points |-> {<<0, 0>>, <<2, 0>>, <<0, 2>>, <<2, 2>>},
     centerline |-> << <<0, 0>>, <<2, 2>> >>]
TrackB ==
    [points |-> {<<0, 0>>, <<1, 0>>, <<1, 1>>, <<2, 1>>},
     centerline |-> << <<0, 0>>, <<2, 1>> >>]

LexLess(p, q) == p[1] < q[1] \/ (p[1] = q[1] /\ p[2] < q[2])

RECURSIVE SortPoints(_)
SortPoints(S) ==
    IF S = {} THEN <<>>
    ELSE LET m == CHOOSE p \in S : \A q \in S \ {p} : LexLess(p, q)
         IN <<m>> \o SortPoints(S \ {m})

Dist(p, q) == Abs(p[1] - q[1]) + Abs(p[2] - q[2])

\* selector.select(points, remain): `remain` seed centres of the centerline
Select(centerline, remain) == SubSeq(centerline, 1, remain)

\* segmentator.segmentate(points, group_centers): one cluster per centre,
\* every valid point in the cluster of its nearest centre
Segmentate(points, group_centers) ==
    [ i \in 1..Len(group_centers) |->
        { p \in points :
            /\ \A j \in 1..Len(group_centers) :
                  Dist(p, group_centers[i]) <= Dist(p, group_centers[j])
            /\ \A j \in 1..(i - 1) :
                  Dist(p, group_centers[j]) > Dist(p, group_centers[i]) } ]

\* transform.groupsBorderObtain / groupsBorderBeautify: the cluster's border
\* as an ordered closed polyline
GroupBorder(group) == SortPoints(group)

\* transform.groupsCenterCompute: the cluster point farthest from the border
GroupCenter(group) ==
    LET border == GroupBorder(group)
        far(p) == Min({ Dist(p, border[k]) : k \in 1..Len(border) })
        top == { p \in group : \A q \in group : far(q) <= far(p) }
    IN CHOOSE p \in top : \A q \in top \ {p} : LexLess(q, p)

\* transform.matryoshkaCreate(border, center, layers)
MatryoshkaCreate(border, center, layers) ==
    [border |-> border, center |-> center, layers |-> layers]

\* table entry T[l, k] of a Matryoshka, l in 0..L-1, k in 0..B-1
TableAt(M, l, k) ==
    LET b == M.border[k + 1]
        L1 == M.layers - 1
    IN << ((L1 - l) * b[1] + l * M.center[1]) \div L1,
          ((L1 - l) * b[2] + l * M.center[2]) \div L1 >>

\* AngularIndex that clamps the index to the table instead of wrapping it
AngularIndexClamped(B, b, den) ==
    LET fl == (b * B) \div den
        k0 == Min({fl, B - 1})
    IN [k0 |-> k0, k1 |-> Min({k0 + 1, B - 1}), u |-> b * B - fl * den]

\* step 2 of the forward map for beta = b / den: s = beta * B,
\* k0 = floor(s) mod B, k1 = (k0 + 1) mod B, u = s - floor(s) (u in 1/den)
AngularIndex(B, b, den) ==
    LET fl == (b * B) \div den
        k0 == fl % B
    IN [k0 |-> k0, k1 |-> (k0 + 1) % B, u |-> b * B - fl * den]

\* step 1 of the forward map for alpha = a / den: r = alpha * (L - 1),
\* l0 = floor(r), l1 = min(l0 + 1, L - 1), t = r - l0 (t in 1/den)
LayerIndex(L, a, den) ==
    LET l0 == (a * (L - 1)) \div den
    IN [l0 |-> l0, l1 |-> IF l0 + 1 < L - 1 THEN l0 + 1 ELSE L - 1,
        t |-> a * (L - 1) - l0 * den]

\* the forward map f(alpha, beta) of a Matryoshka for alpha = a / den and
\* beta = b / den: the bilinear blend of four table entries, times den * den
MatryoshkaMapAt(M, a, b, den) ==
    LET li == LayerIndex(M.layers, a, den)
        ki == AngularIndex(Len(M.border), b, den)
        t == li.t
        u == ki.u
        blend(d) ==
            (den - t) * (den - u) * TableAt(M, li.l0, ki.k0)[d]
            + (den - t) * u * TableAt(M, li.l0, ki.k1)[d]
            + t * (den - u) * TableAt(M, li.l1, ki.k0)[d]
            + t * u * TableAt(M, li.l1, ki.k1)[d]
    IN << blend(1), blend(2) >>

\* transform.matryoshkaMap(M, [p])[0] for a row p = (alpha, beta) whose
\* components are 0 or 1: the blend weights t and u are then 0 and the map
\* is the table entry itself, MatryoshkaMapAt(M, p[1], p[2], 1)
MatryoshkaMap(M, p) ==
    LET B == Len(M.border)
        r == p[1] * (M.layers - 1)
        l0 == r
        s == p[2] * B
        k0 == s % B
    IN TableAt(M, l0, k0)

\* the MapSet init builds (lines 177-214)
BuildMapSet(points, centerline, groups, layers) ==
    LET group_centers == Select(centerline, groups)
        _groups == Segmentate(points, group_centers)
    IN [ i \in 1..Len(_groups) |->
           MatryoshkaCreate(GroupBorder(_groups[i]), GroupCenter(_groups[i]),
                            layers) ]

\* interpolator.interpolate(points): a closed curve through the control
\* points, sampled at every control point and half-way to the next one;
\* with three columns the third is the curvature (in tenths)
Interpolate(points, cols) ==
    LET G == Len(points)
        nxt(i) == points[(i % G) + 1]
        turn(i) == 5 * ((nxt(i)[1] - points[i][1]) + (nxt(i)[2] - points[i][2]))
        mid(i) == << (points[i][1] + nxt(i)[1]) \div 2,
                     (points[i][2] + nxt(i)[2]) \div 2 >>
        row(q, i) == IF cols >= 3 THEN <<q[1], q[2], turn(i)>> ELSE q
    IN [ j \in 1..(2 * G) |->
           LET i == (j + 1) \div 2
           IN IF j % 2 = 1 THEN row(points[i], i) ELSE row(mid(i), i) ]

\* criterion.compute(points): the length of the closed curve, plus one
CriterionCompute(points) ==
    LET n == Len(points)
        nxt(j) == points[(j % n) + 1]
    IN 1 + SumSeq([ j \in 1..n |-> Dist(points[j], nxt(j)) ])

\* criterion.compute raises for the criterion module named "raises" (a
\* criterion that fails on the samples it is given); "length" never raises
CriterionRaises(criterion) == criterion = "raises"

----------------------------------------------------------------------------
\* optimizers/matryoshka/main.py: _opt

\* the search space of the optimizer (line 234): one row per Matryoshka
Rows == { <<0, 0>>, <<1, 0>> }
Candidates(dim) == [ 1..dim -> Rows ]

\* line 301
ControlPoints(M, u) == [ i \in 1..Len(u) |-> MatryoshkaMap(M[i], u[i]) ]

\* lines 301-305
Dense(M, u, cols) == Interpolate(ControlPoints(M, u), cols)

\* line 310: the test that decides between penalty and criterion
IsPenalized(penalty) == penalty # 0

\* OptValue with criterion.compute called before the test of line 310
OptValueEager(M, u, cols, valid_points, grid, penalty, args, stored, criterion) ==
    LET _points == Dense(M, u, cols)
        pen == Penalize(_points, cols, valid_points, grid, penalty, args,
                        stored)
    IN [ok |-> pen.ok /\ ~CriterionRaises(criterion),
        penalty |-> pen.val, crit |-> pen.ok,
        ret |-> IF pen.ok /\ ~IsPenalized(pen.val)
                THEN CriterionCompute(_points) ELSE pen.val,
        k_max |-> pen.k_max, inv |-> pen.inv, grid |-> grid, args |-> args]

\* lines 301-329 without the logging: what one call of _opt computes.
\* ok is false when penalize or criterion.compute raised (_opt catches
\* nothing: the exception leaves it); crit says whether criterion.compute
\* was invoked; ret is the value returned.
OptValue(M, u, cols, valid_points, grid, penalty, args, stored, criterion) ==
    LET _points == Dense(M, u, cols)
        pen == Penalize(_points, cols, valid_points, grid, penalty, args,
                        stored)
    IN IF ~pen.ok
       THEN [ok |-> FALSE, penalty |-> 0, crit |-> FALSE, ret |-> 0,
             k_max |-> pen.k_max, inv |-> pen.inv, grid |-> grid,
             args |-> args]
       ELSE IF ~IsPenalized(pen.val) /\ CriterionRaises(criterion)
       THEN [ok |-> FALSE, penalty |-> pen.val, crit |-> TRUE, ret |-> 0,
             k_max |-> pen.k_max, inv |-> pen.inv, grid |-> grid,
             args |-> args]
       ELSE IF IsPenalized(pen.val)
       THEN [ok |-> TRUE, penalty |-> pen.val, crit |-> FALSE,
             ret |-> pen.val,
             k_max |-> pen.k_max, inv |-> pen.inv, grid |-> grid,
             args |-> args]
       ELSE [ok |-> TRUE, penalty |-> pen.val, crit |-> TRUE,
             ret |-> CriterionCompute(_points),
             k_max |-> pen.k_max, inv |-> pen.inv, grid |-> grid,
             args |-> args]

\* OptLines with both thresholds one level too low
OptLinesLower(id, verbosity, penalized) ==
    (IF verbosity > 1
     THEN << [ev |-> id, kind |-> "pointsA"], [ev |-> id, kind |-> "pointsT"] >>
     ELSE <<>>)
    \o (IF verbosity > 0
        THEN << [ev |-> id, kind |-> IF penalized THEN "penalty" ELSE "correct"] >>
        ELSE <<>>)

\* the records _opt prints under FILELOCK (lines 311-317, 321-327)
OptLines(id, verbosity, penalized) ==
    (IF verbosity > 2
     THEN << [ev |-> id, kind |-> "pointsA"], [ev |-> id, kind |-> "pointsT"] >>
     ELSE <<>>)
    \o (IF verbosity > 1
        THEN << [ev |-> id, kind |-> IF penalized THEN "penalty" ELSE "correct"] >>
        ELSE <<>>)

----------------------------------------------------------------------------
\* State machine

Running == {"opt", "lock", "print"}

\* Rest that lets init and optimize start while OPTIMIZER.minimize runs
RestOrMinimize == {"idle", "reported", "failed", "minimize"}

\* the driver is outside optimize (before it, or after it returned or raised):
\* init and optimize are called by one thread, one after the other
Rest == {"idle", "reported", "failed"}

NoRes ==
    [ok |-> TRUE, penalty |-> 0, crit |-> FALSE, ret |-> 0, k_max |-> 0,
     inv |-> <<>>, grid |-> <<>>, args |-> <<>>]
NoBest == [set |-> FALSE, u |-> <<>>, val |-> 0]
NoFinal == [state |-> "none", value |-> 0, rec |-> <<>>, pool |-> 0, own |-> 0]
NoCall ==
    [state |-> "none", points |-> <<>>, cols |-> 0, valid_points |-> {},
     grid |-> <<>>, penalty |-> 0, overflown |-> <<>>, ok |-> TRUE, val |-> 0,
     k_max |-> 0]
NoEval ==
    [state |-> "none", M |-> <<>>, u |-> <<>>, cols |-> 0,
     valid_points |-> {}, grid |-> <<>>, penalty |-> 0, ok |-> TRUE,
     ret |-> 0]
NoMap ==
    [state |-> "none", M |-> <<>>, a |-> 0, b |-> 0, index |-> <<>>,
     out |-> <<>>]

\* the module globals after both modules were imported (lines 30-51;
\* curvature 15, 21), nothing called yet
Imported ==
    /\ MATRYOSHKA = None
    /\ VALID_POINTS = {}
    /\ GRID = None
    /\ PENALTY = 0
    /\ VERBOSITY = 3
    /\ PENALIZER_ARGS = <<>>
    /\ OPTIMIZER = None
    /\ INTERPOLATOR = 0
    /\ LOGFILE = "none"
    /\ FILELOCK = [p \in Procs |-> FALSE]
    /\ INVALID_POINTS = [p \in Procs |-> <<>>]
    /\ P_k_max = [p \in Procs |-> KMaxDefault]
    /\ logbuf = [p \in Procs |-> <<>>]
    /\ logsink = <<>>
    /\ pc = [p \in Procs |-> IF p = Driver THEN "idle" ELSE "down"]
    /\ cand = [p \in Procs |-> <<>>]
    /\ ev = [p \in Procs |-> 0]
    /\ res = [p \in Procs |-> NoRes]
    /\ pending = [p \in Procs |-> <<>>]
    /\ asked = 0
    /\ told = 0
    /\ best = NoBest
    /\ final = NoFinal
    /\ nInit = 0
    /\ nRun = 0
    /\ nOpt = 0
    /\ lastInit = <<>>
    /\ built = 0
    /\ CRITERION = "none"
    /\ defaultArgs = <<>>
    /\ argsDefault = FALSE

\* the state after import, no call of penalize, _opt or matryoshkaMap pending
Init ==
    /\ Imported
    /\ penCall = NoCall
    /\ evalCall = NoEval
    /\ mapCall = NoMap

\* ProcessOf for a pool of threads: every worker runs in the driver's process
ProcessOfThread(p) == Driver

\* The pool of optimize() is a ProcessPoolExecutor (line 249): every worker
\* is a process of its own, with its own copy of the module globals of the
\* penalizer and of FILELOCK.  ProcessOf(p) is the process whose copy the
\* code run by p reads and writes.
ProcessOf(p) == p

\* NeedBuild without the `or not _holdmatryoshka` of line 172
NeedBuildOnce(M, hold_matryoshka) == M = None

\* line 172
NeedBuild(M, hold_matryoshka) == M = None \/ ~hold_matryoshka

\* lines 225-230
GridAfterBuild(old, grid, points) ==
    IF old = None
    THEN IF Len(grid) = 2 THEN grid
         ELSE <<GridCompute(points), GridCompute(points)>>
    ELSE old

\* penalizer.init (curvature lines 28-32): P.updateAll(kwargs) resets the
\* parameters and applies the keyword arguments
PenalizerInit(kwargs) ==
    IF "k_max" \in DOMAIN kwargs THEN kwargs.k_max ELSE KMaxDefault

\* Dimension taken from the `groups` argument instead of the MapSet
DimensionOfGroups(M, groups) == groups

\* line 234: the instrumentation is an array of len(MATRYOSHKA) rows
Dimension(M, groups) == Len(M)

\* lines 99 and 161: PENALIZER_ARGS is bound to the dictionary the caller
\* passed or, when the argument is omitted, to the one default dictionary
\* created when init was defined (dflt is what that dictionary holds now)
ArgsBound(a, dflt) ==
    IF a.penalizer_args_omitted THEN dflt ELSE a.penalizer_args

\* init (lines 83-235)
InitCall(a) ==
    /\ pc[Driver] \in Rest
    /\ VALID_POINTS' = a.points
    /\ PENALTY' = a.penalty
    /\ VERBOSITY' = a.logging_verbosity
    /\ PENALIZER_ARGS' = ArgsBound(a, defaultArgs)
    /\ argsDefault' = a.penalizer_args_omitted
    /\ INTERPOLATOR' = a.interpolator
    /\ LOGFILE' = a.logfile
    /\ CRITERION' = a.criterion
    /\ IF NeedBuild(MATRYOSHKA, a.hold_matryoshka)
       THEN /\ MATRYOSHKA' = BuildMapSet(a.points, a.group_centerline,
                                         a.groups, a.layers)
            /\ P_k_max' = [P_k_max EXCEPT
                              ![Driver] = PenalizerInit(a.penalizer_init)]
            /\ GRID' = GridAfterBuild(GRID, a.grid, a.points)
            /\ built' = built + 1
       ELSE UNCHANGED <<MATRYOSHKA, P_k_max, GRID, built>>
    /\ OPTIMIZER' = [dim |-> Dimension(MATRYOSHKA', a.groups),
                     budget |-> a.budget,
                     workers |-> a.workers]
    /\ asked' = 0
    /\ told' = 0
    /\ best' = NoBest
    /\ lastInit' = a
    /\ nInit' = nInit + 1
    /\ pc' = [pc EXCEPT ![Driver] = "idle"]
    /\ UNCHANGED <<FILELOCK, INVALID_POINTS, logbuf, logsink, cand, ev, res,
                   pending, final, nRun, nOpt, penCall, defaultArgs,
                   evalCall, mapCall>>

\* optimize, line 249: the pool is created; its processes are forked from
\* the driver and start with copies of the driver's penalizer state, lock
\* and unflushed log text
OptimizeStart ==
    /\ pc[Driver] \in Rest
    /\ OPTIMIZER # None
    /\ pc' = [p \in Procs |->
                IF p = Driver THEN "minimize"
                ELSE IF p <= OPTIMIZER.workers THEN "idle" ELSE "down"]
    /\ INVALID_POINTS' = [p \in Procs |-> INVALID_POINTS[Driver]]
    /\ P_k_max' = [p \in Procs |-> P_k_max[Driver]]
    /\ FILELOCK' = [p \in Procs |-> FILELOCK[Driver]]
    /\ logbuf' = [p \in Procs |-> logbuf[Driver]]
    /\ final' = NoFinal
    /\ nRun' = nRun + 1
    /\ UNCHANGED <<MATRYOSHKA, VALID_POINTS, GRID, PENALTY, VERBOSITY,
                   PENALIZER_ARGS, OPTIMIZER, INTERPOLATOR, LOGFILE, logsink,
                   cand, ev, res, pending, asked, told, best, nInit, nOpt,
                   lastInit, built, penCall,
                   CRITERION, defaultArgs, argsDefault, evalCall, mapCall>>

\* what OPTIMIZER.ask may return: a point of the instrumented space (line 234)
SearchSpace == IF OPTIMIZER = None THEN {} ELSE Candidates(OPTIMIZER.dim)

\* CanAsk off by one
CanAskOneMore == asked <= OPTIMIZER.budget

\* OPTIMIZER.minimize (line 250): candidates are asked while budget remains
CanAsk == asked < OPTIMIZER.budget

\* line 250: the optimizer asks a candidate and submits _opt(u) to the pool;
\* an idle worker process takes it
Submit(w, u) ==
    /\ pc[Driver] = "minimize"
    /\ CanAsk
    /\ pc[w] = "idle"
    /\ pc' = [pc EXCEPT ![w] = "opt"]
    /\ cand' = [cand EXCEPT ![w] = u]
    /\ ev' = [ev EXCEPT ![w] = nOpt + 1]
    /\ nOpt' = nOpt + 1
    /\ asked' = asked + 1
    /\ final' = [final EXCEPT !.pool = @ + 1]
    /\ UNCHANGED <<MATRYOSHKA, VALID_POINTS, GRID, PENALTY, VERBOSITY,
                   PENALIZER_ARGS, OPTIMIZER, INTERPOLATOR, LOGFILE, FILELOCK,
                   INVALID_POINTS, P_k_max, logbuf, logsink, res, pending,
                   told, best, nInit, nRun, lastInit, built, penCall,
                   CRITERION, defaultArgs, argsDefault, evalCall, mapCall>>

\* _opt, lines 301-320: map, interpolate, penalize and, if the penalty is
\* zero, criterion
OptCompute(p) ==
    /\ pc[p] = "opt"
    /\ LET r == OptValue(MATRYOSHKA, cand[p], INTERPOLATOR, VALID_POINTS,
                         GRID, PENALTY, PENALIZER_ARGS,
                         P_k_max[ProcessOf(p)], CRITERION)
       IN /\ res' = [res EXCEPT ![p] = r]
          /\ INVALID_POINTS' =
               [INVALID_POINTS EXCEPT
                  ![ProcessOf(p)] = ObserverAfter(@, r.inv)]
          /\ P_k_max' = [P_k_max EXCEPT ![ProcessOf(p)] = r.k_max]
          /\ pc' = [pc EXCEPT ![p] = IF r.ok THEN "lock" ELSE "raised"]
    /\ UNCHANGED <<MATRYOSHKA, VALID_POINTS, GRID, PENALTY, VERBOSITY,
                   PENALIZER_ARGS, OPTIMIZER, INTERPOLATOR, LOGFILE, FILELOCK,
                   logbuf, logsink, cand, ev, pending, asked, told, best,
                   final, nInit, nRun, nOpt, lastInit, built, penCall,
                   CRITERION, defaultArgs, argsDefault, evalCall, mapCall>>

\* _opt, lines 311 and 321: with FILELOCK
OptAcquire(p) ==
    /\ pc[p] = "lock"
    /\ ~FILELOCK[ProcessOf(p)]
    /\ FILELOCK' = [FILELOCK EXCEPT ![ProcessOf(p)] = TRUE]
    /\ pending' = [pending EXCEPT
                      ![p] = OptLines(ev[p], VERBOSITY, res[p].penalty # 0)]
    /\ pc' = [pc EXCEPT ![p] = "print"]
    /\ UNCHANGED <<MATRYOSHKA, VALID_POINTS, GRID, PENALTY, VERBOSITY,
                   PENALIZER_ARGS, OPTIMIZER, INTERPOLATOR, LOGFILE,
                   INVALID_POINTS, P_k_max, logbuf, logsink, cand, ev, res,
                   asked, told, best, final, nInit, nRun, nOpt, lastInit,
                   built, penCall,
                   CRITERION, defaultArgs, argsDefault, evalCall, mapCall>>

\* print(..., file=LOGFILE): the text joins what the process buffers for the
\* file; a line-buffered file (a terminal) passes every line on at once
\* (returns the pair <<buffer, sink>> after the write)
WriteLines(kind, buf, sink, lines) ==
    IF kind = "tty" THEN << <<>>, sink \o buf \o lines >>
    ELSE << buf \o lines, sink >>

\* _opt, lines 313-316 and 323-326: one print
OptPrint(p) ==
    /\ pc[p] = "print"
    /\ pending[p] # <<>>
    /\ LET w == WriteLines(LOGFILE, logbuf[ProcessOf(p)], logsink,
                           <<Head(pending[p])>>)
       IN /\ logbuf' = [logbuf EXCEPT ![ProcessOf(p)] = w[1]]
          /\ logsink' = w[2]
    /\ pending' = [pending EXCEPT ![p] = Tail(pending[p])]
    /\ UNCHANGED <<MATRYOSHKA, VALID_POINTS, GRID, PENALTY, VERBOSITY,
                   PENALIZER_ARGS, OPTIMIZER, INTERPOLATOR, LOGFILE, FILELOCK,
                   INVALID_POINTS, P_k_max, pc, cand, ev, res, asked, told,
                   best, final, nInit, nRun, nOpt, lastInit, built, penCall,
                   CRITERION, defaultArgs, argsDefault, evalCall, mapCall>>

\* _opt, lines 317-318 and 327-329: LOGFILE.flush(), the lock is released,
\* the value is returned
OptFlush(p) ==
    /\ pc[p] = "print"
    /\ pending[p] = <<>>
    /\ logsink' = logsink \o logbuf[ProcessOf(p)]
    /\ logbuf' = [logbuf EXCEPT ![ProcessOf(p)] = <<>>]
    /\ FILELOCK' = [FILELOCK EXCEPT ![ProcessOf(p)] = FALSE]
    /\ pc' = [pc EXCEPT ![p] = "done"]
    /\ UNCHANGED <<MATRYOSHKA, VALID_POINTS, GRID, PENALTY, VERBOSITY,
                   PENALIZER_ARGS, OPTIMIZER, INTERPOLATOR, LOGFILE,
                   INVALID_POINTS, P_k_max, cand, ev, res, pending, asked,
                   told, best, final, nInit, nRun, nOpt, lastInit, built,
                   penCall,
                   CRITERION, defaultArgs, argsDefault, evalCall, mapCall>>

\* OPTIMIZER.tell: the optimizer keeps the candidate of the lowest value
TellBest(old, u, val) ==
    IF ~old.set \/ val < old.val THEN [set |-> TRUE, u |-> u, val |-> val]
    ELSE old

\* line 250: minimize collects a finished job; job.result() re-raises what
\* _opt raised in the worker, which ends minimize
Tell(w) ==
    /\ pc[Driver] = "minimize"
    /\ pc[w] \in {"done", "raised"}
    /\ IF pc[w] = "done"
       THEN /\ best' = TellBest(best, cand[w], res[w].ret)
            /\ told' = told + 1
            /\ pc' = [pc EXCEPT ![w] = "idle"]
       ELSE /\ pc' = [pc EXCEPT ![w] = "idle", ![Driver] = "abort"]
            /\ UNCHANGED <<best, told>>
    /\ UNCHANGED <<MATRYOSHKA, VALID_POINTS, GRID, PENALTY, VERBOSITY,
                   PENALIZER_ARGS, OPTIMIZER, INTERPOLATOR, LOGFILE, FILELOCK,
                   INVALID_POINTS, P_k_max, logbuf, logsink, cand, ev, res,
                   pending, asked, final, nInit, nRun, nOpt, lastInit, built,
                   penCall,
                   CRITERION, defaultArgs, argsDefault, evalCall, mapCall>>

\* PoolDrained that does not wait for the jobs still running
PoolDrainedEarly == ~CanAsk

\* lines 249-250: minimize returns when the budget is used up and no job is
\* running or waiting to be told; leaving the with block shuts the pool down
\* (shutdown(wait=True))
PoolDrained ==
    /\ ~CanAsk
    /\ \A w \in Workers : pc[w] \in {"idle", "down"}

\* OPTIMIZER.provide_recommendation
Recommend(b, dim) == IF b.set THEN b.u ELSE [i \in 1..dim |-> <<0, 0>>]

\* line 254
SetOptimization(args) ==
    [k \in DOMAIN args \cup {"optimization"} |->
        IF k = "optimization" THEN FALSE ELSE args[k]]

\* optimize, lines 250-255: the pool is left, the recommendation is taken,
\* PENALIZER_ARGS["optimization"] is set and the driver itself calls _opt.
\* Line 254 writes into the dictionary PENALIZER_ARGS is bound to: when that
\* is init's default dictionary, the default itself is changed.
PoolExit ==
    /\ pc[Driver] = "minimize"
    /\ PoolDrained
    /\ pc' = [p \in Procs |->
                IF p = Driver THEN "opt"
                ELSE IF pc[p] = "idle" THEN "down" ELSE pc[p]]
    /\ cand' = [cand EXCEPT ![Driver] = Recommend(best, OPTIMIZER.dim)]
    /\ ev' = [ev EXCEPT ![Driver] = nOpt + 1]
    /\ nOpt' = nOpt + 1
    /\ final' = [final EXCEPT !.own = @ + 1]
    /\ PENALIZER_ARGS' = SetOptimization(PENALIZER_ARGS)
    /\ defaultArgs' = IF argsDefault THEN SetOptimization(defaultArgs)
                      ELSE defaultArgs
    /\ UNCHANGED <<MATRYOSHKA, VALID_POINTS, GRID, PENALTY, VERBOSITY,
                   OPTIMIZER, INTERPOLATOR, LOGFILE, FILELOCK, INVALID_POINTS,
                   P_k_max, logbuf, logsink, res, pending, asked, told, best,
                   nInit, nRun, lastInit, built, penCall,
                   CRITERION, argsDefault, evalCall, mapCall>>

\* line 249, leaving the with block on an exception: the pool waits for the
\* running jobs, then optimize raises
AbortExit ==
    /\ pc[Driver] = "abort"
    /\ \A w \in Workers : pc[w] \notin Running
    /\ pc' = [p \in Procs |-> IF p = Driver THEN "failed" ELSE "down"]
    /\ final' = [final EXCEPT !.state = "raised"]
    /\ UNCHANGED <<MATRYOSHKA, VALID_POINTS, GRID, PENALTY, VERBOSITY,
                   PENALIZER_ARGS, OPTIMIZER, INTERPOLATOR, LOGFILE, FILELOCK,
                   INVALID_POINTS, P_k_max, logbuf, logsink, cand, ev, res,
                   pending, asked, told, best, nInit, nRun, nOpt, lastInit,
                   built, penCall,
                   CRITERION, defaultArgs, argsDefault, evalCall, mapCall>>

\* line 255: _opt raised in the driver; optimize raises
FinalRaise ==
    /\ pc[Driver] = "raised"
    /\ pc' = [pc EXCEPT ![Driver] = "failed"]
    /\ final' = [final EXCEPT !.state = "raised"]
    /\ UNCHANGED <<MATRYOSHKA, VALID_POINTS, GRID, PENALTY, VERBOSITY,
                   PENALIZER_ARGS, OPTIMIZER, INTERPOLATOR, LOGFILE, FILELOCK,
                   INVALID_POINTS, P_k_max, logbuf, logsink, cand, ev, res,
                   pending, asked, told, best, nInit, nRun, nOpt, lastInit,
                   built, penCall,
                   CRITERION, defaultArgs, argsDefault, evalCall, mapCall>>

\* the records optimize prints (lines 272-274)
ReportLines(verbosity) ==
    IF verbosity > 0
    THEN << [ev |-> 0, kind |-> "solution"], [ev |-> 0, kind |-> "final"] >>
    ELSE <<>>

\* optimize, lines 255-276: final is the value of the driver's _opt; the
\* solution and final records are printed under FILELOCK (and not flushed);
\* optimize returns
Report ==
    /\ pc[Driver] = "done"
    /\ ~FILELOCK[ProcessOf(Driver)]
    /\ LET w == WriteLines(LOGFILE, logbuf[ProcessOf(Driver)], logsink,
                           ReportLines(VERBOSITY))
       IN /\ logbuf' = [logbuf EXCEPT ![ProcessOf(Driver)] = w[1]]
          /\ logsink' = w[2]
    /\ final' = [final EXCEPT !.state = "returned",
                              !.value = res[Driver].ret,
                              !.rec = cand[Driver]]
    /\ pc' = [pc EXCEPT ![Driver] = "reported"]
    /\ UNCHANGED <<MATRYOSHKA, VALID_POINTS, GRID, PENALTY, VERBOSITY,
                   PENALIZER_ARGS, OPTIMIZER, INTERPOLATOR, LOGFILE, FILELOCK,
                   INVALID_POINTS, P_k_max, cand, ev, res, pending, asked,
                   told, best, nInit, nRun, nOpt, lastInit, built, penCall,
                   CRITERION, defaultArgs, argsDefault, evalCall, mapCall>>

\* penalizer.penalize called on the pending input penCall (a call outside
\* optimize, in the driver's process)
PenalizeCall ==
    /\ penCall.state = "pending"
    /\ LET r == Penalize(penCall.points, penCall.cols, penCall.valid_points,
                         penCall.grid, penCall.penalty, penCall.overflown,
                         P_k_max[Driver])
       IN /\ penCall' = [penCall EXCEPT !.state = "called", !.ok = r.ok,
                                        !.val = r.val, !.k_max = r.k_max]
          /\ INVALID_POINTS' =
               [INVALID_POINTS EXCEPT ![Driver] = ObserverAfter(@, r.inv)]
          /\ P_k_max' = [P_k_max EXCEPT ![Driver] = r.k_max]
    /\ UNCHANGED <<MATRYOSHKA, VALID_POINTS, GRID, PENALTY, VERBOSITY,
                   PENALIZER_ARGS, OPTIMIZER, INTERPOLATOR, LOGFILE, FILELOCK,
                   logbuf, logsink, pc, cand, ev, res, pending, asked, told,
                   best, final, nInit, nRun, nOpt, lastInit, built,
                   CRITERION, defaultArgs, argsDefault, evalCall, mapCall>>

\* _opt called on the pending input evalCall, in the driver's process, with
\* no penalizer arguments and the criterion "length" (lines 301-329 without
\* the logging)
EvaluateCall ==
    /\ evalCall.state = "pending"
    /\ LET r == OptValue(evalCall.M, evalCall.u, evalCall.cols,
                         evalCall.valid_points, evalCall.grid,
                         evalCall.penalty, <<>>, P_k_max[Driver], "length")
       IN /\ evalCall' = [evalCall EXCEPT !.state = "called", !.ok = r.ok,
                                          !.ret = r.ret]
          /\ INVALID_POINTS' =
               [INVALID_POINTS EXCEPT ![Driver] = ObserverAfter(@, r.inv)]
          /\ P_k_max' = [P_k_max EXCEPT ![Driver] = r.k_max]
    /\ UNCHANGED <<MATRYOSHKA, VALID_POINTS, GRID, PENALTY, VERBOSITY,
                   PENALIZER_ARGS, OPTIMIZER, INTERPOLATOR, LOGFILE, FILELOCK,
                   logbuf, logsink, pc, cand, ev, res, pending, asked, told,
                   best, final, nInit, nRun, nOpt, lastInit, built, penCall,
                   CRITERION, defaultArgs, argsDefault, mapCall>>

\* transform.matryoshkaMap called on the pending input mapCall (line 301)
MatryoshkaMapCall ==
    /\ mapCall.state = "pending"
    /\ mapCall' = [mapCall EXCEPT
                     !.state = "called",
                     !.index = AngularIndex(Len(mapCall.M.border), mapCall.b,
                                            MapDen),
                     !.out = MatryoshkaMapAt(mapCall.M, mapCall.a, mapCall.b,
                                             MapDen)]
    /\ UNCHANGED <<MATRYOSHKA, VALID_POINTS, GRID, PENALTY, VERBOSITY,
                   PENALIZER_ARGS, OPTIMIZER, INTERPOLATOR, LOGFILE, FILELOCK,
                   INVALID_POINTS, P_k_max, logbuf, logsink, pc, cand, ev,
                   res, pending, asked, told, best, final, nInit, nRun, nOpt,
                   lastInit, built, penCall, CRITERION, defaultArgs,
                   argsDefault, evalCall>>

----------------------------------------------------------------------------
\* Specifications

\* keyword arguments of init that no specification below varies
BaseArgs ==
    [points |-> TrackA.points, group_centerline |-> TrackA.centerline,
     budget |-> 1, layers |-> 5, groups |-> 2, workers |-> 1,
     penalty |-> 100, interpolator |-> 3, penalizer_init |-> <<>>,
     penalizer_args |-> <<>>, logfile |-> "file", logging_verbosity |-> 2,
     hold_matryoshka |-> FALSE, grid |-> <<>>, criterion |-> "length",
     penalizer_args_omitted |-> FALSE]

\* Spec: one init, then runs of optimize.  The arguments of init are drawn
\* from two families: single-worker runs that vary what an evaluation sees
\* (budget, segments, interpolator columns and grid; or grid, penalty and
\* k_max; or a criterion that raises), and runs of two evaluations that vary the pool and the log
\* (workers, verbosity, kind of log file).
EvalArgs ==
    { [BaseArgs EXCEPT !.budget = b, !.groups = g, !.interpolator = c,
                       !.grid = gr] :
        b \in 1..MaxBudget, g \in {1, 2}, c \in {2, 3},
        gr \in {<<>>, <<1, 1>>} }
    \cup { [BaseArgs EXCEPT !.grid = gr, !.penalty = k,
                            !.penalizer_args = pa] :
             gr \in {<<>>, <<1, 1>>}, k \in {100, -100},
             pa \in {<<>>, [k_max |-> 0]} }
    \cup { [BaseArgs EXCEPT !.criterion = "raises", !.budget = b,
                            !.groups = g] :
             b \in 1..MaxBudget, g \in {1, 2} }

PoolArgs ==
    { [BaseArgs EXCEPT !.budget = 2, !.workers = w, !.logfile = f,
                       !.logging_verbosity = v] :
        w \in 1..MaxWorkers, f \in {"tty", "file"}, v \in 0..3 }

RunArgs == EvalArgs \cup PoolArgs

Next ==
    \/ \E a \in RunArgs : nInit = 0 /\ InitCall(a)
    \/ nRun < MaxRuns /\ OptimizeStart
    \/ \E w \in Workers : \E u \in SearchSpace : Submit(w, u)
    \/ \E p \in Procs : OptCompute(p)
    \/ \E p \in Procs : OptAcquire(p)
    \/ \E p \in Procs : OptPrint(p)
    \/ \E p \in Procs : OptFlush(p)
    \/ \E w \in Workers : Tell(w)
    \/ PoolExit
    \/ AbortExit
    \/ FinalRaise
    \/ Report

Spec == Init /\ [][Next]_vars

\* SpecSeq: sequences of init calls that differ in track, hold_matryoshka
\* and grid, with single-worker runs of optimize between them.
SeqArgs ==
    { [BaseArgs EXCEPT !.points = t.points,
                       !.group_centerline = t.centerline,
                       !.hold_matryoshka = h, !.grid = gr, !.groups = g] :
        t \in {TrackA, TrackB}, h \in BOOLEAN, g \in {1, 2},
        gr \in {<<>>, <<1, 1>>} }

NextSeq ==
    \/ \E a \in SeqArgs : nInit < MaxInits /\ InitCall(a)
    \/ nRun < MaxRuns /\ OptimizeStart
    \/ \E w \in Workers : \E u \in SearchSpace : Submit(w, u)
    \/ \E p \in Procs : OptCompute(p)
    \/ \E p \in Procs : OptAcquire(p)
    \/ \E p \in Procs : OptPrint(p)
    \/ \E p \in Procs : OptFlush(p)
    \/ \E w \in Workers : Tell(w)
    \/ PoolExit
    \/ Report

SpecSeq == Init /\ [][NextSeq]_vars

\* SpecDict: sequences of init calls that pass a penalizer_args dictionary
\* of their own or leave the argument out, with single-worker runs of
\* optimize between them.
DictArgs ==
    { [BaseArgs EXCEPT !.penalizer_args_omitted = o, !.penalizer_args = pa,
                       !.budget = b] :
        o \in BOOLEAN, pa \in {<<>>, [k_max |-> 20]}, b \in 1..MaxBudget }

NextDict ==
    \/ \E a \in DictArgs : nInit < MaxInits /\ InitCall(a)
    \/ nRun < MaxRuns /\ OptimizeStart
    \/ \E w \in Workers : \E u \in SearchSpace : Submit(w, u)
    \/ \E p \in Procs : OptCompute(p)
    \/ \E p \in Procs : OptAcquire(p)
    \/ \E p \in Procs : OptPrint(p)
    \/ \E p \in Procs : OptFlush(p)
    \/ \E w \in Workers : Tell(w)
    \/ PoolExit
    \/ Report

SpecDict == Init /\ [][NextDict]_vars

\* SpecPen: penalize as a function of its arguments and of the stored k_max.
PenRows ==
    { <<xy[1], xy[2], k>> : xy \in {<<0, 0>>, <<1, 1>>, <<3, 0>>},
                            k \in {-20, 0, 10, 20} }

RECURSIVE SeqsUpTo(_, _)
SeqsUpTo(S, n) ==
    IF n = 0 THEN {<<>>}
    ELSE LET shorter == SeqsUpTo(S, n - 1)
         IN shorter \cup { Append(q, x) : q \in shorter, x \in S }

\* the first `cols` columns of every row
Columns(points, cols) ==
    [ i \in 1..Len(points) |-> SubSeq(points[i], 1, cols) ]

PenInputs ==
    { [NoCall EXCEPT !.state = "pending", !.points = Columns(pts, c),
                     !.cols = c, !.valid_points = vp, !.grid = gr,
                     !.penalty = k, !.overflown = o] :
        pts \in SeqsUpTo(PenRows, MaxPts), c \in {2, 3},
        vp \in {{<<0, 0>>}, {<<0, 0>>, <<3, 1>>}},
        gr \in {<<1, 1>>, <<2, 1>>, <<4, 4>>},
        k \in {100, 0, -100},
        o \in {<<>>, [k_max |-> 0], [k_max |-> -15]} }

InitPen ==
    /\ Imported
    /\ penCall \in PenInputs
    /\ evalCall = NoEval
    /\ mapCall = NoMap

NextPen == PenalizeCall

SpecPen == InitPen /\ [][NextPen]_vars

\* SpecDet: one init, runs of optimize, and one call of penalize made by the
\* caller itself between them (as a plotting or checking script does), with
\* or without a k_max keyword.
DetArgs ==
    { [BaseArgs EXCEPT !.budget = b, !.groups = g, !.grid = gr] :
        b \in 1..MaxBudget, g \in {1, 2}, gr \in {<<>>, <<1, 1>>} }

DetInputs ==
    { [NoCall EXCEPT !.state = "pending", !.points = << <<0, 0, 0>> >>,
                     !.cols = 3, !.valid_points = {<<0, 0>>},
                     !.grid = <<1, 1>>, !.penalty = 100, !.overflown = o] :
        o \in {<<>>, [k_max |-> 0]} }

InitDet ==
    /\ Imported
    /\ penCall \in DetInputs
    /\ evalCall = NoEval
    /\ mapCall = NoMap

NextDet ==
    \/ \E a \in DetArgs : nInit = 0 /\ InitCall(a)
    \/ nRun < MaxRuns /\ OptimizeStart
    \/ \E w \in Workers : \E u \in SearchSpace : Submit(w, u)
    \/ \E p \in Procs : OptCompute(p)
    \/ \E p \in Procs : OptAcquire(p)
    \/ \E p \in Procs : OptPrint(p)
    \/ \E p \in Procs : OptFlush(p)
    \/ \E w \in Workers : Tell(w)
    \/ PoolExit
    \/ Report
    \/ pc[Driver] \in Rest /\ PenalizeCall

SpecDet == InitDet /\ [][NextDet]_vars

\* SpecEval: one evaluation as a function of what init left: a MapSet built
\* on one track, the valid points of the same or (after an init that held
\* the MapSet) of another track, the grid, the penalty constant, the number
\* of columns the interpolator returns, and the candidate.
EvalInputs ==
    UNION { { [NoEval EXCEPT !.state = "pending", !.M = M, !.u = u,
                             !.cols = c, !.valid_points = tv.points,
                             !.grid = gr, !.penalty = k] :
                u \in Candidates(Len(M)) } :
            M \in { BuildMapSet(tm.points, tm.centerline, g, 5) :
                      tm \in {TrackA, TrackB}, g \in {1, 2} },
            tv \in {TrackA, TrackB}, c \in {2, 3},
            gr \in {<<1, 1>>, <<2, 2>>}, k \in {0, 100} }

InitEval ==
    /\ Imported
    /\ penCall = NoCall
    /\ evalCall \in EvalInputs
    /\ mapCall = NoMap

NextEval == EvaluateCall

SpecEval == InitEval /\ [][NextEval]_vars

\* SpecMap: the forward map as a function of the Matryoshka (a segment of
\* either track, with 2, 3 or 5 layers) and of alpha and beta, which range
\* over the multiples of 1 / MapDen in [0, 1].
MapInputs ==
    { [NoMap EXCEPT !.state = "pending", !.M = M, !.a = a, !.b = b] :
        M \in UNION { { S[i] : i \in 1..Len(S) } :
                       S \in { BuildMapSet(t.points, t.centerline, g, l) :
                                 t \in {TrackA, TrackB}, g \in {1, 2},
                                 l \in {2, 3, 5} } },
        a \in 0..MapDen, b \in 0..MapDen }

InitMap ==
    /\ Imported
    /\ penCall = NoCall
    /\ evalCall = NoEval
    /\ mapCall \in MapInputs

NextMap == MatryoshkaMapCall

SpecMap == InitMap /\ [][NextMap]_vars

----------------------------------------------------------------------------
\* Properties

\* processes whose call of _opt has returned from penalize without raising
Computed == { p \in Procs : pc[p] \in {"lock", "print", "done"} }

\* the dense samples of the candidate process p evaluates
DenseOf(p) == Dense(MATRYOSHKA, cand[p], INTERPOLATOR)

\* number of rows of `points` with no valid point closer than the grid in
\* both coordinates
CountOutside(points, valid_points, grid) ==
    Cardinality({ i \in 1..Len(points) :
        \A v \in valid_points :
            ~(Abs(v[1] - points[i][1]) < grid[1]
              /\ Abs(v[2] - points[i][2]) < grid[2]) })

\* C1: for every candidate, _opt returns exactly the penalty when the
\* penalty is non-zero, and then criterion.compute was not invoked; when the
\* penalty is zero it returns exactly criterion.compute of the dense samples.
C1_PenaltyOrCriterion ==
    \A p \in Computed :
        LET d == DenseOf(p)
            pen == Penalize(d, INTERPOLATOR, VALID_POINTS, GRID, PENALTY,
                            PENALIZER_ARGS, P_k_max[p])
        IN /\ pen.ok
           /\ res[p].penalty = pen.val
           /\ IF pen.val # 0
              THEN res[p].ret = pen.val /\ ~res[p].crit
              ELSE res[p].ret = CriterionCompute(d) /\ res[p].crit

\* C1 witness: two evaluations have returned, one with a non-zero penalty
\* and no criterion call, one with the criterion value.
C1_Witness ==
    \E p, q \in Procs :
        /\ pc[p] = "done" /\ res[p].penalty # 0 /\ ~res[p].crit
        /\ pc[q] = "done" /\ res[q].penalty = 0 /\ res[q].crit
        /\ res[q].ret = CriterionCompute(DenseOf(q))

\* C2: penalize counts as invalid every point without a valid point closer
\* than the grid in x and in y, and whenever that count is greater than 0 it
\* returns exactly invalid * penalty * 10, whatever the curvature column.
C2_InvalidCountPenalty ==
    penCall.state = "called" =>
        LET n == CountOutside(penCall.points, penCall.valid_points,
                              penCall.grid)
        IN n > 0 => /\ penCall.ok
                    /\ penCall.val = n * penCall.penalty * 10
                    /\ Len(INVALID_POINTS[Driver]) = n

\* sum of the curvatures beyond k_max, the negative ones negated (tenths)
RECURSIVE ExcessOf(_, _)
ExcessOf(points, k_max) ==
    IF points = <<>> THEN 0
    ELSE LET k == Head(points)[3]
         IN (IF k > k_max THEN k ELSE 0) + (IF k < -k_max THEN -k ELSE 0)
            + ExcessOf(Tail(points), k_max)

\* C3: when no point is invalid and the points carry a curvature column,
\* penalize returns (k_excess / 100) * penalty * 10, k_excess being the sum
\* of the curvatures above k_max plus the negated curvatures below -k_max;
\* k_max is 1.5 unless overridden.  (val is compared times 1000: curvatures
\* are in tenths.)
C3_CurvaturePenalty ==
    (/\ penCall.state = "called"
     /\ penCall.cols >= 3
     /\ CountOutside(penCall.points, penCall.valid_points, penCall.grid) = 0)
    => LET k_max == IF "k_max" \in DOMAIN penCall.overflown
                    THEN penCall.overflown.k_max ELSE 15
       IN /\ penCall.ok
          /\ penCall.val * 1000
               = ExcessOf(penCall.points, k_max) * penCall.penalty * 10

\* C3 witness: one valid sample of curvature 2.0, k_max 1.5, penalty 100:
\* the call returned 20.
C3_Witness ==
    /\ penCall.state = "called"
    /\ penCall.points = << <<0, 0, 20>> >>
    /\ penCall.cols = 3
    /\ penCall.overflown = <<>>
    /\ penCall.penalty = 100
    /\ CountOutside(penCall.points, penCall.valid_points, penCall.grid) = 0
    /\ penCall.val = 20

\* every sample within the grid of a valid point, no curvature beyond k_max
Feasible(points, valid_points, grid, k_max) ==
    /\ CountOutside(points, valid_points, grid) = 0
    /\ \A i \in 1..Len(points) : Abs(points[i][3]) <= k_max

\* C4: for k_max >= 0 and penalty > 0 the value penalize returns is never
\* negative, it is 0 exactly when the candidate is feasible, and only then
\* does _opt use the criterion.
C4_PenaltyZeroIffFeasible ==
    \A p \in Computed :
        (PENALTY > 0 /\ P_k_max[p] >= 0) =>
            LET ok == Feasible(DenseOf(p), VALID_POINTS, GRID, P_k_max[p])
            IN /\ res[p].penalty >= 0
               /\ res[p].penalty = 0 <=> ok
               /\ res[p].crit <=> ok

\* C4 witness: with penalty > 0 and k_max >= 0 one evaluation found its
\* candidate feasible (penalty 0) and one found every sample on the track
\* but curvature beyond k_max (penalty positive).
C4_Witness ==
    /\ PENALTY > 0
    /\ \E p, q \in Computed :
        /\ P_k_max[p] >= 0 /\ P_k_max[q] >= 0
        /\ res[p].penalty = 0
        /\ Feasible(DenseOf(p), VALID_POINTS, GRID, P_k_max[p])
        /\ res[q].penalty > 0
        /\ CountOutside(DenseOf(q), VALID_POINTS, GRID) = 0

\* C5: an init with hold_matryoshka while a MapSet exists leaves the MapSet
\* as it was and calls no selector, segmentator or builder; any other init
\* rebuilds the MapSet from the arguments of that call.
C5_HoldKeepsElseRebuilds ==
    [][ nInit' = nInit + 1 =>
          IF lastInit'.hold_matryoshka /\ MATRYOSHKA # None
          THEN MATRYOSHKA' = MATRYOSHKA /\ built' = built
          ELSE /\ MATRYOSHKA' = BuildMapSet(lastInit'.points,
                                            lastInit'.group_centerline,
                                            lastInit'.groups, lastInit'.layers)
               /\ built' = built + 1 ]_vars

\* C5 witness: the second init held a MapSet that the arguments of that
\* call would not have built, and nothing was rebuilt.
C5_Witness ==
    /\ nInit = 2
    /\ built = 1
    /\ lastInit.hold_matryoshka
    /\ MATRYOSHKA # BuildMapSet(lastInit.points, lastInit.group_centerline,
                                lastInit.groups, lastInit.layers)

\* the grid the latest init asks for
GridOfInit(a) ==
    IF Len(a.grid) = 2 THEN a.grid
    ELSE <<GridCompute(a.points), GridCompute(a.points)>>

\* C6: after any init that supplies a two-element grid every evaluation
\* passes exactly that grid to the penalizer, and after an init without a
\* grid the one computed from that call's valid points; for every init of a
\* sequence.
C6_GridFollowsInit ==
    \A p \in Computed : res[p].grid = GridOfInit(lastInit)

\* C7 as stated: a run with budget b performs exactly b evaluate calls and
\* returns the best of them.
C7_ExactlyBudgetCalls ==
    (final.state = "returned" /\ nRun = 1) =>
        /\ final.pool + final.own = OPTIMIZER.budget
        /\ final.value = best.val

\* C7 amended: the first run after init with budget b performs exactly b
\* evaluate calls in the pool and one more in the driver, b + 1 in all, and
\* returns the best value of the b pool evaluations.
C7_BudgetPlusFinalCall ==
    (final.state = "returned" /\ nRun = 1) =>
        /\ final.pool = OPTIMIZER.budget
        /\ told = OPTIMIZER.budget
        /\ final.own = 1
        /\ nOpt = OPTIMIZER.budget + 1
        /\ best.set
        /\ final.value = best.val
        /\ final.rec = best.u

\* C7 witness: a run with budget 2 returned after 2 pool evaluations and
\* the driver's own one.
C7_Witness ==
    /\ final.state = "returned"
    /\ nRun = 1
    /\ OPTIMIZER.budget = 2
    /\ final.pool = 2
    /\ final.own = 1

\* solution and final records written so far by the driver
ReportCount ==
    Len(SelectSeq(logsink \o logbuf[Driver],
                  LAMBDA l : l.kind \in {"solution", "final"}))

\* the driver is inside its own call of _opt (line 255)
InFinalEval == pc[Driver] \in {"opt", "lock", "print", "done", "raised"}

\* C8: the final recomputation starts only after every pool evaluation has
\* completed and the pool has shut down, it runs in the driver and never
\* next to a worker evaluation, and the solution and final records are
\* written only after it.
C8_FinalAfterPool ==
    /\ [](InFinalEval => \A w \in Workers : pc[w] = "down")
    /\ [][ ReportCount' > ReportCount =>
             /\ pc[Driver] = "done"
             /\ pc'[Driver] = "reported"
             /\ \A w \in Workers : pc[w] = "down" ]_vars

\* C8 witness: the driver is printing the record of its final evaluation
\* after two workers evaluated the whole budget.
C8_Witness ==
    /\ pc[Driver] = "print"
    /\ OPTIMIZER.workers = 2
    /\ told = 2
    /\ \A w \in Workers : pc[w] = "down"

\* C9: all log writes go through one lock shared by all workers, so the
\* lines of one evaluation's record are contiguous in the log.
C9_RecordsContiguous ==
    \A i, k \in 1..Len(logsink) :
        (i < k /\ logsink[i].ev # 0 /\ logsink[i].ev = logsink[k].ev) =>
            \A j \in i..k : logsink[j].ev = logsink[i].ev

\* C10: INVALID_POINTS of the driver is modified only by the driver's final
\* evaluation; no evaluation of a pool worker changes it.
C10_ObserverOnlyFinal ==
    [][ INVALID_POINTS'[Driver] # INVALID_POINTS[Driver] =>
          /\ pc[Driver] = "opt"
          /\ \A w \in Workers : pc[w] = "down" ]_vars

\* C10 witness: while the driver optimises, a worker's penalize has filled
\* the worker's INVALID_POINTS and the driver's is still empty.
C10_Witness ==
    /\ pc[Driver] = "minimize"
    /\ INVALID_POINTS[Driver] = <<>>
    /\ \E w \in Workers : pc[w] = "done" /\ INVALID_POINTS[w] # <<>>

\* C11: a failure inside an evaluation (here: criterion.compute raises)
\* never aborts the run: no exception leaves _opt (the candidate is scored
\* +infinity instead), and optimize neither aborts nor fails because of it.
C11_EvalFailureNeverAborts ==
    CriterionRaises(CRITERION) =>
        /\ \A p \in Procs : pc[p] # "raised"
        /\ pc[Driver] \notin {"abort", "failed"}

\* the driver is inside optimize
InOptimize(at) ==
    at \in {"minimize", "opt", "lock", "print", "done", "abort", "raised"}

\* C12: from the start of optimize until it returns, MATRYOSHKA, the valid
\* points and the grid are never written: no step that begins or ends inside
\* optimize changes them, so the pool evaluations and the final evaluation
\* all read the MapSet init left.
C12_MapSetFrozenInRun ==
    [][ (InOptimize(pc[Driver]) \/ InOptimize(pc'[Driver])) =>
          /\ MATRYOSHKA' = MATRYOSHKA
          /\ VALID_POINTS' = VALID_POINTS
          /\ GRID' = GRID ]_vars

\* C12 witness: in the run after a second init the pool has evaluated and
\* the driver's final evaluation has returned, and the MapSet is the one the
\* last rebuilding init made.
C12_Witness ==
    /\ pc[Driver] = "done"
    /\ nInit = 2
    /\ told >= 1
    /\ ~lastInit.hold_matryoshka
    /\ MATRYOSHKA = BuildMapSet(lastInit.points, lastInit.group_centerline,
                                lastInit.groups, lastInit.layers)

\* C13: evaluation is deterministic: within the context one init set, an
\* evaluation of the candidate the optimizer holds as its best returns the
\* score that candidate was given before, whatever calls of _opt or penalize
\* happened in between and whatever k_max and INVALID_POINTS they left.
C13_SameCandidateSameScore ==
    \A p \in Computed :
        (best.set /\ cand[p] = best.u) => res[p].ret = best.val

\* the lowest logging_verbosity at which a record of this kind is written
KindLevel(kind) ==
    IF kind \in {"solution", "final"} THEN 1
    ELSE IF kind \in {"penalty", "correct"} THEN 2
    ELSE 3

\* every record written so far, in the log or still in a buffer
Written ==
    { logsink[i] : i \in 1..Len(logsink) }
    \cup UNION { { logbuf[p][i] : i \in 1..Len(logbuf[p]) } : p \in Procs }

\* number of records of evaluation id and of one of the kinds in the log
CountOf(id, kinds) ==
    Cardinality({ i \in 1..Len(logsink) :
                    logsink[i].ev = id /\ logsink[i].kind \in kinds })

C15_TwoColumnPoints ==
    (penCall.state = "called" /\ penCall.cols = 2) =>
        /\ penCall.ok
        /\ penCall.val
             = CountOutside(penCall.points, penCall.valid_points,
                            penCall.grid) * penCall.penalty * 10

\* C16: when all G mapped control points of a candidate lie outside the
\* valid points (no valid point within the grid), the evaluation returns
\* at least penalty * 10 * G.
C16_AllOutsideAtLeastG ==
    (/\ evalCall.state = "called"
     /\ CountOutside(ControlPoints(evalCall.M, evalCall.u),
                     evalCall.valid_points, evalCall.grid) = Len(evalCall.u))
    => /\ evalCall.ok
       /\ evalCall.ret >= evalCall.penalty * 10 * Len(evalCall.u)

\* C17: angular periodicity of the forward map: for every segment and every
\* alpha, f(alpha, 1) = f(alpha, 0); the index wraps, so beta = 1 selects the
\* table entries k0 = 0, k1 = 1 mod B and the blend weight u = 0 of beta = 0.
C17_AngularPeriodicity ==
    (mapCall.state = "called" /\ mapCall.b = MapDen) =>
        /\ mapCall.out = MatryoshkaMapAt(mapCall.M, mapCall.a, 0, MapDen)
        /\ mapCall.index
             = [k0 |-> 0, k1 |-> 1 % Len(mapCall.M.border), u |-> 0]

\* C17 witness: the map was called with beta = 1 and an alpha strictly
\* between two layers on a segment whose border has several points, and
\* returned the point of beta = 0, which is not the point of the last
\* border entry.
C17_Witness ==
    /\ mapCall.state = "called"
    /\ mapCall.b = MapDen
    /\ mapCall.a = 1
    /\ Len(mapCall.M.border) > 1
    /\ mapCall.out = MatryoshkaMapAt(mapCall.M, 1, 0, MapDen)
    /\ mapCall.out # MatryoshkaMapAt(mapCall.M, 1, MapDen - 1, MapDen)

\* C18: after any sequence of init calls the search space of the optimizer
\* has exactly one row per Matryoshka of the current MapSet, also after an
\* init that held the MapSet and named another number of groups; every
\* candidate under evaluation has one row for each Matryoshka and no more.
C18_OneRowPerMatryoshka ==
    /\ OPTIMIZER # None => OPTIMIZER.dim = Len(MATRYOSHKA)
    /\ \A p \in Procs :
          pc[p] \in {"opt", "lock", "print", "done", "raised"} =>
              DOMAIN cand[p] = 1..Len(MATRYOSHKA)

\* C18 witness: the second init held a MapSet whose length differs from its
\* `groups` argument, and a worker has evaluated a candidate of as many rows
\* as the MapSet has Matryoshkas.
C18_Witness ==
    /\ nInit = 2
    /\ lastInit.hold_matryoshka
    /\ lastInit.groups # Len(MATRYOSHKA)
    /\ \E w \in Workers :
          pc[w] = "done" /\ Len(cand[w]) = Len(MATRYOSHKA)

\* the offending rows of one call: the rows off the track if there are any,
\* otherwise the rows whose curvature exceeds k_max in absolute value
Offending(points, cols, valid_points, grid, k_max) ==
    LET off == SelectSeq(points,
                   LAMBDA r : \A v \in valid_points :
                                 ~(Abs(v[1] - r[1]) < grid[1]
                                   /\ Abs(v[2] - r[2]) < grid[2]))
    IN IF off # <<>> \/ cols < 3 THEN off
       ELSE SelectSeq(points, LAMBDA r : r[3] > k_max \/ -r[3] > k_max)

\* C19: after any sequence of penalize calls in one process, INVALID_POINTS
\* of that process holds exactly the offending points of its latest call
\* and nothing of the calls before.
C19_ObserverHoldsLatestCall ==
    \A p \in Procs :
        pc[p] \in {"lock", "print", "done", "raised"} =>
            INVALID_POINTS[p]
              = Offending(DenseOf(p), INTERPOLATOR, VALID_POINTS, GRID,
                          P_k_max[p])

\* C19 witness: the only worker has finished a later evaluation; its list
\* is not empty and differs from the list its earlier evaluation (of the
\* candidate held as best) left.
C19_Witness ==
    /\ OPTIMIZER # None
    /\ OPTIMIZER.workers = 1
    /\ best.set
    /\ pc[1] = "done"
    /\ cand[1] # best.u
    /\ INVALID_POINTS[1] # <<>>
    /\ Offending(Dense(MATRYOSHKA, best.u, INTERPOLATOR), INTERPOLATOR,
                 VALID_POINTS, GRID, P_k_max[1]) # <<>>
    /\ INVALID_POINTS[1]
         # Offending(Dense(MATRYOSHKA, best.u, INTERPOLATOR), INTERPOLATOR,
                     VALID_POINTS, GRID, P_k_max[1])

\* C20: optimization = False is passed to the penalizer only in the final
\* evaluation of a run: no evaluation a pool worker has computed, in the
\* first run or in a later one, received the key "optimization".
C20_FlagOnlyInFinalEvaluation ==
    \A w \in Workers :
        pc[w] \in {"lock", "print", "done", "raised"} =>
            "optimization" \notin DOMAIN res[w].args

====
